---- MODULE Spec2Model ----
(***************************************************************************)
(* generate.py of small-llm: the greedy decoding loop generate_text and    *)
(* the interactive session loop of main.                                   *)
(*                                                                         *)
(* Two specifications share the decoding loop:                             *)
(*   SpecGen  generate_text called on the inputs of its contract (a        *)
(*            non-empty seed, max_new_tokens >= 0, context_length >= 1),   *)
(*            twice on the same model, so that two calls can be compared;  *)
(*   Spec     main: model.eval(), then the read / generate / print loop    *)
(*            with max_new_tokens = 6 on arbitrary input lines.            *)
(***************************************************************************)
EXTENDS Integers, Sequences, FiniteSets

\* ------------------------------------------------------------------ bounds
MaxSeedLen == 3   \* longest seed handed to generate_text in SpecGen
MaxNew == 3       \* largest max_new_tokens in SpecGen
MaxCtx == 3       \* largest context_length
MaxScore == 4     \* logits lie on the grid 0 .. MaxScore
Resolution == 2   \* grid steps below the maximum that exp rounds to 1.0
MaxTurns == 3     \* lines read in one behaviour of Spec

\* ------------------------------------------------------- program constants
MainMaxNewTokens == 6

VARIABLES
    training,        \* the model's mode flag (nn.Module.training)
    modelId,         \* which model of the family (its weights): never changes
    context_length,  \* cfg["context_length"]: the model's window, positive
    pc,              \* position of the program
    user_input,      \* main: the line last read
    output_ids,      \* main: the value last returned by generate_text
    token_ids,       \* generate_text: the growing sequence
    max_new_tokens,  \* generate_text: its argument
    iter,            \* generate_text: iterations of the for loop completed
    seed,            \* history: token_ids as passed to the current call
    windows,         \* history: the sequences passed to the model, in order
    lastLogits,      \* history: logits[:, -1, :] of the latest iteration
    history,         \* history: one record per finished call / turn
    stdout,          \* what main printed after the banner
    reads            \* number of input() calls made

vars == <<training, modelId, context_length, pc, user_input, output_ids,
          token_ids, max_new_tokens, iter, seed, windows, lastLogits,
          history, stdout, reads>>

Min(a, b) == IF a < b THEN a ELSE b
Max(a, b) == IF a > b THEN a ELSE b

\* ---------------------------------------------------------------- tokenizer
\* The pieces of text a line is made of.  EndOfText stands for the text of
\* GPT-2's special token, which tiktoken's encode refuses by default.
EndOfText == "<|endoftext|>"
Alphabet == <<"e", "x", "i", "t", "E", "X", "I", "T", " ">>
VocabSize == Len(Alphabet)
TokenIds == 0 .. (VocabSize - 1)

\* tokenizer.encode(user_input): byte-level pieces, ids from 0.
TokenOf(c) == (CHOOSE k \in 1 .. VocabSize : Alphabet[k] = c) - 1
EncodeRaises(text) == \E k \in 1 .. Len(text) : text[k] = EndOfText
Encode(text) == [k \in 1 .. Len(text) |-> TokenOf(text[k])]
\* tokenizer.decode(ids)
Decode(ids) == [k \in 1 .. Len(ids) |-> Alphabet[ids[k] + 1]]

\* str.lower()
LowerChar(c) ==
    CASE c = "E" -> "e"
      [] c = "X" -> "x"
      [] c = "I" -> "i"
      [] c = "T" -> "t"
      [] OTHER -> c
Lower(text) == [k \in 1 .. Len(text) |-> LowerChar(text[k])]

ExitSentinel == <<"e", "x", "i", "t">>

\* user_input.lower() == 'exit'
IsExitExact(line) == line = ExitSentinel
IsExit(line) == Lower(line) = ExitSentinel

\* The lines typed in Spec.
Lines ==
    { <<>>,
      <<"e", "x", "i", "t">>,
      <<"E", "X", "I", "T">>,
      <<"E", "x", "i", "t">>,
      <<"e", "x", "i", "t", " ">>,
      <<"e", "x", "i">>,
      <<"T", "e">>,
      <<"i">>,
      <<"t", EndOfText>> }

\* -------------------------------------------------------------------- model
\* LanguageModel is not part of generate.py.  It is taken as the interface
\* describes it: a callable from a (batch of one) token sequence to one score
\* vector per position, deterministic in inference mode, with stochastic
\* layers (dropout) active in training mode.  The family below is indexed by
\* modelId; position k's scores depend on the tokens 1..k (and on how many
\* there are), so every token of the window matters.
Models == {0, 1, 2}

RECURSIVE Hash(_)
Hash(w) ==
    IF w = <<>> THEN 0
    ELSE Len(w) * (w[Len(w)] + 1) + Hash(SubSeq(w, 1, Len(w) - 1))

Score(m, w, t, noise) ==
    ((Hash(w) + m + Len(w)) * (t + 1) + m * t * t + noise * (t + 2))
        % (MaxScore + 1)

\* The dropout draws a forward pass may make.
Noise(isTraining) == IF isTraining THEN {0, 1} ELSE {0}

\* model(real_token_ids) raises on a sequence with no positions (and
\* logits[:, -1, :] would find no last position to take).
ForwardRaises(w) == Len(w) = 0

\* model(real_token_ids)[0]: Len(w) score vectors over the vocabulary.
Forward(m, w, noise) ==
    [k \in 1 .. Len(w) |->
        [t \in TokenIds |-> Score(m, SubSeq(w, 1, k), t, noise)]]

\* ------------------------------------------------------------ generate_text
\* s[start:] of Python, for any integer start.
PySliceFrom(s, start) ==
    LET n == Len(s)
        lo == IF start < 0 THEN Max(n + start, 0) ELSE Min(start, n)
    IN SubSeq(s, lo + 1, n)

\* real_token_ids = token_ids[:, -context_length:]
WindowWhole(ids, cl) == ids
WindowOneMore(ids, cl) == PySliceFrom(ids, -(cl + 1))
Window(ids, cl) == PySliceFrom(ids, -cl)

\* logits[:, -1, :]
LastPosition(logits) == logits[Len(logits)]

RECURSIVE SumTo(_, _)
SumTo(e, n) == IF n < 0 THEN 0 ELSE e[n] + SumTo(e, n - 1)

MaxOf(v) == CHOOSE x \in {v[t] : t \in DOMAIN v} : \A u \in DOMAIN v : v[u] <= x

\* torch.softmax works in float32: exp(x - max) is rounded to 24 significant
\* bits, so a score within Resolution grid steps of the maximum gets exactly
\* the same value 1.0 as the maximum itself (float32: logits 1e-10 and 2e-10
\* give exp(-1e-10) = 1.0 and the probabilities 0.5, 0.5).  Further below the
\* maximum the value decreases strictly.  d = x - max <= 0, in grid steps.
One == 2 ^ 6
ExpRounded(d) ==
    IF -d < Resolution THEN One ELSE One \div (2 ^ (-d - Resolution + 1))

\* probabilities = torch.softmax(logits, dim=-1): each probability is the
\* fraction <<numerator, denominator>>.
Softmax(logits) ==
    LET mx == MaxOf(logits)
        e == [t \in DOMAIN logits |-> ExpRounded(logits[t] - mx)]
        s == SumTo(e, VocabSize - 1)
    IN [t \in DOMAIN logits |-> <<e[t], s>>]

FracLess(a, b) == a[1] * b[2] < b[1] * a[2]

\* torch.argmax(probabilities, dim=-1): the first index of a maximal value.
ArgMax(p) ==
    CHOOSE t \in DOMAIN p :
        /\ \A u \in DOMAIN p : ~FracLess(p[t], p[u])
        /\ \A u \in DOMAIN p : u < t => FracLess(p[u], p[t])

\* The token ids one iteration may append: the code has no choice.
AnyMaximal(p) == {t \in DOMAIN p : \A u \in DOMAIN p : ~FracLess(p[t], p[u])}
NextTokenChoices(p) == {ArgMax(p)}

\* token_ids = torch.cat((token_ids, next_token_id), dim=-1)
PrependToken(ids, t) == <<t>> \o ids
AppendToken(ids, t) == Append(ids, t)

\* for _ in range(max_new_tokens): whether iteration i (from 0) runs.
HasNextOffByOne(i, n) == i <= n
HasNext(i, n) == i < n

Entry(outcome, line, s, n, out, ws) ==
    [outcome |-> outcome, line |-> line, seed |-> s, N |-> n, out |-> out,
     windows |-> ws]

\* One iteration of the for loop (lines 19-39).
GenStep ==
    /\ pc = "generate"
    /\ HasNext(iter, max_new_tokens)
    /\ LET real_token_ids == Window(token_ids, context_length) IN
        /\ windows' = Append(windows, real_token_ids)
        /\ IF ForwardRaises(real_token_ids)
           THEN /\ pc' = "raised"
                /\ history' = Append(history,
                       Entry("raised", user_input, seed, max_new_tokens,
                             token_ids, windows'))
                /\ UNCHANGED <<token_ids, iter, lastLogits>>
           ELSE \E noise \in Noise(training) :
                  LET logits == LastPosition(
                                  Forward(modelId, real_token_ids, noise))
                      probabilities == Softmax(logits)
                  IN \E next_token_id \in NextTokenChoices(probabilities) :
                       /\ token_ids' = AppendToken(token_ids, next_token_id)
                       /\ iter' = iter + 1
                       /\ lastLogits' = logits
                       /\ UNCHANGED <<pc, history>>
    /\ UNCHANGED <<training, modelId, context_length, user_input, output_ids,
                   max_new_tokens, seed, stdout, reads>>

\* return token_ids (line 40)
Return ==
    /\ pc = "generate"
    /\ ~HasNext(iter, max_new_tokens)
    /\ pc' = "returned"
    /\ history' = Append(history,
           Entry("returned", user_input, seed, max_new_tokens, token_ids,
                 windows))
    /\ UNCHANGED <<training, modelId, context_length, user_input, output_ids,
                   token_ids, max_new_tokens, iter, seed, windows, lastLogits,
                   stdout, reads>>

\* --------------------------------------------------------------------- main
\* model.eval() and the banner (lines 59-64)
ModelEval ==
    /\ pc = "constructed"
    /\ training' = FALSE
    /\ pc' = "read"
    /\ UNCHANGED <<modelId, context_length, user_input, output_ids, token_ids,
                   max_new_tokens, iter, seed, windows, lastLogits, history,
                   stdout, reads>>

\* Where main calls input(): the head of the while loop only.
CanReadAfterRaise == pc \in {"read", "raised"}
CanRead == pc = "read"

\* token_ids = torch.tensor(tokenizer.encode(user_input)).unsqueeze(0)
TurnSeedCarried(previous, line) == previous \o Encode(line)
TurnSeed(previous, line) == Encode(line)

\* max_new_tokens=6
OneTokenLess == MainMaxNewTokens - 1
TurnMaxNewTokens == MainMaxNewTokens

\* input() returns a line (lines 66-81, up to the call of generate_text)
ReadLine ==
    /\ CanRead
    /\ reads < MaxTurns
    /\ \E line \in Lines :
        /\ user_input' = line
        /\ reads' = reads + 1
        /\ IF IsExit(line)
           THEN /\ pc' = "exited"
                /\ history' = Append(history,
                       Entry("exit", line, <<>>, 0, <<>>, <<>>))
                /\ UNCHANGED <<token_ids, max_new_tokens, iter, seed, windows,
                               lastLogits>>
           ELSE IF EncodeRaises(line)
           THEN /\ pc' = "raised"
                /\ history' = Append(history,
                       Entry("encode_raised", line, <<>>, 0, <<>>, <<>>))
                /\ UNCHANGED <<token_ids, max_new_tokens, iter, seed, windows,
                               lastLogits>>
           ELSE /\ pc' = "generate"
                /\ token_ids' = TurnSeed(output_ids, line)
                /\ seed' = token_ids'
                /\ max_new_tokens' = TurnMaxNewTokens
                /\ iter' = 0
                /\ windows' = <<>>
                /\ lastLogits' = <<>>
                /\ UNCHANGED history
    /\ UNCHANGED <<training, modelId, context_length, output_ids, stdout>>

\* input() raises EOFError at the end of the input
ReadEOF ==
    /\ CanRead
    /\ pc' = "eof"
    /\ reads' = reads + 1
    /\ history' = Append(history, Entry("eof", <<>>, <<>>, 0, <<>>, <<>>))
    /\ UNCHANGED <<training, modelId, context_length, user_input, output_ids,
                   token_ids, max_new_tokens, iter, seed, windows, lastLogits,
                   stdout>>

\* output_ids = generate_text(...); decode; print (lines 76-87)
PrintResponse ==
    /\ pc = "returned"
    /\ output_ids' = token_ids
    /\ stdout' = Append(stdout,
           [turn |-> Len(history), text |-> Decode(token_ids)])
    /\ pc' = "read"
    /\ UNCHANGED <<training, modelId, context_length, user_input, token_ids,
                   max_new_tokens, iter, seed, windows, lastLogits, history,
                   reads>>

Init ==
    /\ training = TRUE
    /\ modelId \in Models
    /\ context_length \in 1 .. MaxCtx
    /\ pc = "constructed"
    /\ user_input = <<>>
    /\ output_ids = <<>>
    /\ token_ids = <<>>
    /\ max_new_tokens = 0
    /\ iter = 0
    /\ seed = <<>>
    /\ windows = <<>>
    /\ lastLogits = <<>>
    /\ history = <<>>
    /\ stdout = <<>>
    /\ reads = 0

Next ==
    \/ ModelEval
    \/ ReadLine
    \/ ReadEOF
    \/ GenStep
    \/ Return
    \/ PrintResponse

Spec == Init /\ [][Next]_vars

\* ------------------------------------------- generate_text under its contract
SeqsUpTo(S, n) == UNION {[1 .. k -> S] : k \in 1 .. n}
SeedTokens == {0, 1}
Seeds == SeqsUpTo(SeedTokens, MaxSeedLen)

InitGen ==
    /\ training = FALSE
    /\ modelId \in Models
    /\ context_length \in 1 .. MaxCtx
    /\ pc = "generate"
    /\ user_input = <<>>
    /\ output_ids = <<>>
    /\ seed \in Seeds
    /\ token_ids = seed
    /\ max_new_tokens \in 0 .. MaxNew
    /\ iter = 0
    /\ windows = <<>>
    /\ lastLogits = <<>>
    /\ history = <<>>
    /\ stdout = <<>>
    /\ reads = 0

\* A second call on the same model with the same context_length, on any seed
\* and any max_new_tokens, to be compared with the first.
NextCall ==
    /\ pc = "returned"
    /\ Len(history) = 1
    /\ \E s \in Seeds :
        /\ seed' = s
        /\ token_ids' = s
    /\ max_new_tokens' \in 0 .. MaxNew
    /\ iter' = 0
    /\ windows' = <<>>
    /\ lastLogits' = <<>>
    /\ pc' = "generate"
    /\ UNCHANGED <<training, modelId, context_length, user_input, output_ids,
                   history, stdout, reads>>

NextGen ==
    \/ GenStep
    \/ Return
    \/ NextCall

SpecGen == InitGen /\ [][NextGen]_vars

\* ------------------------------------------------------------------- claims
\* The suffix of s of length min(Len(s), n).
Suffix(s, n) == SubSeq(s, Len(s) - Min(Len(s), n) + 1, Len(s))
\* The tokens a finished call appended to its seed.
NewTokens(h) == SubSeq(h.out, Len(h.seed) + 1, Len(h.out))
\* Equality of two texts up to the case of their letters.
SameLetter(a, b) ==
    \/ a = b
    \/ {a, b} \in {{"e", "E"}, {"x", "X"}, {"i", "I"}, {"t", "T"}}
SameIgnoringCase(a, b) ==
    /\ Len(a) = Len(b)
    /\ \A k \in 1 .. Len(a) : SameLetter(a[k], b[k])
\* The responses printed for turn k.
PrintedFor(k) == {j \in DOMAIN stdout : stdout[j].turn = k}

\* C1: for a non-empty seed, a positive context_length and max_new_tokens
\* = N >= 0, generate_text returns a sequence of length len(seed) + N whose
\* first len(seed) elements are the seed, unchanged and in order.
C1_LengthAndPrefix ==
    \A k \in DOMAIN history :
        LET h == history[k] IN
        (h.seed # <<>> /\ context_length >= 1) =>
            /\ h.outcome = "returned"
            /\ Len(h.out) = Len(h.seed) + h.N
            /\ SubSeq(h.out, 1, Len(h.seed)) = h.seed

C1_Witness ==
    \E j, k \in DOMAIN history :
        /\ history[j].outcome = "returned" /\ history[j].N = 0
        /\ history[k].outcome = "returned" /\ history[k].N >= 2
        /\ Len(history[k].seed) > context_length

\* C2: in every iteration the sequence passed to the model has at most
\* context_length elements and is the suffix of the current full sequence of
\* length min(len(sequence), context_length); the full sequence is never
\* shortened: it is the seed followed by one token per iteration.
C2_WindowIsSuffix ==
    /\ Len(token_ids) = Len(seed) + iter
    /\ SubSeq(token_ids, 1, Len(seed)) = seed
    /\ \A k \in 1 .. Len(windows) :
        LET full == SubSeq(token_ids, 1, Len(seed) + k - 1) IN
        /\ Len(windows[k]) <= context_length
        /\ Len(windows[k]) = Min(Len(full), context_length)
        /\ windows[k] = Suffix(full, context_length)

C2_Witness ==
    /\ context_length = 2
    /\ Len(seed) = MaxSeedLen
    /\ Len(windows) >= 3
    /\ windows[1] = SubSeq(seed, MaxSeedLen - 1, MaxSeedLen)
    /\ Len(token_ids) = Len(seed) + 3

\* C3: two seeds longer than context_length that share their last
\* context_length tokens get the same new tokens appended (same model, same
\* max_new_tokens, same context_length).
C3_PrefixIndependence ==
    \A j, k \in DOMAIN history :
        LET a == history[j]
            b == history[k]
        IN (/\ a.N = b.N
            /\ Len(a.seed) > context_length
            /\ Len(b.seed) > context_length
            /\ Suffix(a.seed, context_length) = Suffix(b.seed, context_length))
           => /\ a.outcome = "returned"
              /\ b.outcome = "returned"
              /\ NewTokens(a) = NewTokens(b)

C3_Witness ==
    \E j, k \in DOMAIN history :
        LET a == history[j]
            b == history[k]
        IN /\ a.N = b.N
           /\ a.N >= 2
           /\ a.seed # b.seed
           /\ Len(a.seed) > context_length
           /\ Len(b.seed) > Len(a.seed)
           /\ Suffix(a.seed, context_length) = Suffix(b.seed, context_length)
           /\ a.outcome = "returned"
           /\ b.outcome = "returned"

\* C4: decoding is deterministic: a run with the seed, max_new_tokens and
\* context_length of an earlier run on the same model produces, token by
\* token, the sequence the earlier run produced.
C4_Deterministic ==
    \A k \in DOMAIN history :
        LET h == history[k] IN
        (h.seed = seed /\ h.N = max_new_tokens) =>
            /\ Len(token_ids) <= Len(h.out)
            /\ token_ids = SubSeq(h.out, 1, Len(token_ids))
            /\ windows = SubSeq(h.windows, 1, Len(windows))
            /\ pc = "returned" => token_ids = h.out

C4_Witness ==
    /\ Len(history) = 2
    /\ pc = "returned"
    /\ history[1].seed = history[2].seed
    /\ history[1].N = history[2].N
    /\ history[1].N >= 2
    /\ history[1].out = history[2].out

\* C5: the token appended in an iteration has the highest score of the
\* model's output vector for the last position of the window, and among the
\* indices with the highest score it is the lowest.
C5_HighestScoreLowestIndex ==
    (pc \in {"generate", "returned"} /\ iter >= 1) =>
        LET t == token_ids[Len(token_ids)] IN
        /\ lastLogits[t] = MaxOf(lastLogits)
        /\ \A u \in TokenIds : u < t => lastLogits[u] < lastLogits[t]

TurnOver(k) == k < Len(history) \/ pc # "returned"

\* C6: when the line read equals "exit" up to case, the loop terminates at
\* once: no model invocation, no response printed for that line, and no step
\* of the program, hence no further read, after it.
C6_ExitTerminates ==
    [][/\ pc # "exited"
       /\ (/\ reads' = reads + 1
           /\ pc' # "eof"
           /\ SameIgnoringCase(user_input', ExitSentinel))
          => /\ pc' = "exited"
             /\ UNCHANGED <<stdout, windows, token_ids, output_ids, iter,
                            lastLogits>>]_vars

C6_Witness ==
    /\ pc = "exited"
    /\ user_input = <<"E", "x", "i", "t">>
    /\ Len(history) = 3
    /\ history[3].outcome = "exit"
    /\ Len(stdout) = 2

\* C7: no session memory: what a turn generates and prints depends only on
\* that turn's line; a line given again, after whatever other turns, gets the
\* model invoked on the same windows and the same sequence and text printed
\* as when it was the first turn.
C7_NoSessionMemory ==
    /\ \A j, k \in DOMAIN history :
        (/\ history[j].outcome = "returned"
         /\ history[k].outcome = "returned"
         /\ history[j].line = history[k].line)
        => /\ history[j].out = history[k].out
           /\ history[j].windows = history[k].windows
    /\ \A a, b \in DOMAIN stdout :
        history[stdout[a].turn].line = history[stdout[b].turn].line
            => stdout[a].text = stdout[b].text

C7_Witness ==
    /\ Len(stdout) = 3
    /\ history[1].line = history[3].line
    /\ history[1].line # history[2].line
    /\ stdout[1].text = stdout[3].text
    /\ stdout[1].text # stdout[2].text

C9_RaisePropagates ==
    \A k \in DOMAIN history :
        LET h == history[k] IN
        h.outcome = "raised" =>
            /\ k = Len(history)
            /\ pc = "raised"
            /\ reads = k
            /\ PrintedFor(k) = {}
            /\ Len(h.windows) = Len(h.out) - Len(h.seed) + 1
            /\ windows = h.windows
            /\ output_ids =
                 (IF stdout = <<>> THEN <<>>
                  ELSE history[stdout[Len(stdout)].turn].out)
            /\ Len(stdout) = k - 1

C9_Witness ==
    /\ pc = "raised"
    /\ Len(history) = 3
    /\ history[3].outcome = "raised"
    /\ history[3].line = <<>>
    /\ history[3].windows = << <<>> >>
    /\ Len(stdout) = 2

====
